---- MODULE Spec2Model ----
(***************************************************************************)
(* Agri-Intel alerting core: the WebSocket connection registry             *)
(* (backend/app/api/websocket.py) and the alert / notification services    *)
(* (backend/app/services/notifications.py), as asyncio state machines.     *)
(* One action is the code a task runs between two suspension points        *)
(* (awaits); other tasks run only while a task is suspended.               *)
(***************************************************************************)
EXTENDS Integers, Sequences, FiniteSets, TLC

\* ------------------------------------------------------------------ bounds
MaxConns == 2

Users == {"u1", "u2"}
Conns == 1..MaxConns
Tasks == {1, 2}          \* the concurrent sender tasks; a task's message is its id
Dummy == "<dummy>"
NoConn == 0

\* ----------------------------------------------------------------- helpers
Range(s) == {s[i] : i \in 1..Len(s)}

Count(s, x) == Cardinality({i \in 1..Len(s) : s[i] = x})

RECURSIVE RemoveFirst(_, _)
\* list.remove(x): drops the first occurrence of x
RemoveFirst(s, x) ==
  IF s = <<>> THEN <<>>
  ELSE IF Head(s) = x THEN Tail(s)
  ELSE <<Head(s)>> \o RemoveFirst(Tail(s), x)

\* ------------------------------------------------------------------- state
VARIABLES
  entries,       \* ConnectionManager.active_connections: the dict's entry table in
                 \* insertion order, [key, conns]; a deleted key leaves a dummy slot
  wsUser,        \* per websocket: the user_id path parameter of its endpoint
  wsPc,          \* per websocket: position of websocket_endpoint ("new","reading","ended")
  client_state,  \* per websocket: WebSocket.client_state
  task,          \* per sender task: the send_personal_message / broadcast call frame
  recv,          \* per websocket: the messages send_text handed to it, in order
  unregd,        \* history: websockets for which disconnect() has returned
  redone         \* history: websockets for which disconnect() has returned again

regVars == <<entries, wsUser, wsPc, client_state, task, recv, unregd, redone>>

VARIABLES
  now,            \* the clock (datetime.now(), func.now())
  alerts,         \* the committed rows of table `alerts`, in insertion order
  active_alerts,  \* AlertService.active_alerts: the cached payloads
  call,           \* per create_alert call in flight: its frame
  ended,          \* how the create_alert call that ended last ended
  smtp_host,      \* NotificationService.smtp_host is set
  twilio_client   \* NotificationService.twilio_client is set

alertVars == <<now, alerts, active_alerts, call, ended, smtp_host, twilio_client>>

VARIABLES
  listing,        \* what the last get_active_alerts call returned, and for what
  mark_call       \* the last mark_alert_as_read call that returned

readVars == <<listing, mark_call>>

VARIABLES
  condition,      \* an AlertCondition object
  verdict         \* the last evaluate call on it: its argument and its result

evalVars == <<condition, verdict>>

VARIABLES
  app_state       \* the lifespan handler: "running", "closing", "closed"

lifeVars == <<app_state>>

VARIABLES
  wall,           \* time.time(), in seconds
  clients,        \* RateLimitMiddleware.clients: per client IP seen, its recorded request times
  served,         \* history: per client IP, the requests handed to call_next within the last minute
  last            \* the last request dispatched and what became of it

rateVars == <<wall, clients, served, last>>

\* what the registry and the alert service never touch
sideVars == <<readVars, evalVars, lifeVars, rateVars>>
vars == <<regVars, alertVars, sideVars>>

DummyEntry == [key |-> Dummy, conns |-> <<>>]

\* ---------------------------------------------------------------- the dict
\* len(active_connections)
Used(E) == Cardinality({i \in 1..Len(E) : E[i].key # Dummy})

\* position of user_id's entry, 0 when `user_id not in active_connections`
Lookup(E, user_id) ==
  IF \E i \in 1..Len(E) : E[i].key = user_id
  THEN CHOOSE i \in 1..Len(E) : E[i].key = user_id
  ELSE 0

\* every websocket present in some user's list
Registered(E) == UNION {Range(E[i].conns) : i \in 1..Len(E)}

\* the websockets in user_id's list
ListOf(E, user_id) ==
  IF Lookup(E, user_id) = 0 THEN {} ELSE Range(E[Lookup(E, user_id)].conns)

\* a connect that starts the user's list afresh
connect_replaces(E, websocket, user_id) ==
  LET i == Lookup(E, user_id) IN
  IF i = 0
  THEN Append(E, [key |-> user_id, conns |-> <<websocket>>])
  ELSE [E EXCEPT ![i].conns = <<websocket>>]

\* ConnectionManager.connect, after `await websocket.accept()` returned
connect(E, websocket, user_id) ==
  LET i == Lookup(E, user_id) IN
  IF i = 0
  THEN Append(E, [key |-> user_id, conns |-> <<websocket>>])
  ELSE [E EXCEPT ![i].conns = Append(@, websocket)]

\* a disconnect that forgets to remove the websocket
disconnect_keeps(E, websocket, user_id) == E

\* a disconnect that removes the websocket but never deletes the emptied entry
disconnect_nodel(E, websocket, user_id) ==
  LET i == Lookup(E, user_id) IN
  IF i = 0 THEN E
  ELSE [E EXCEPT ![i].conns = RemoveFirst(@, websocket)]

\* a disconnect that, not finding the websocket, removes the list's last one
disconnect_pops(E, websocket, user_id) ==
  LET i == Lookup(E, user_id) IN
  IF i = 0 THEN E
  ELSE LET l == IF websocket \in Range(E[i].conns)
                THEN RemoveFirst(E[i].conns, websocket)
                ELSE SubSeq(E[i].conns, 1, Len(E[i].conns) - 1) IN
       IF l = <<>> THEN [E EXCEPT ![i] = DummyEntry]
       ELSE [E EXCEPT ![i].conns = l]

\* ConnectionManager.disconnect
disconnect(E, websocket, user_id) ==
  LET i == Lookup(E, user_id) IN
  IF i = 0 THEN E
  ELSE IF websocket \notin Range(E[i].conns) THEN E      \* ValueError: pass
  ELSE LET l == RemoveFirst(E[i].conns, websocket) IN
       IF l = <<>> THEN [E EXCEPT ![i] = DummyEntry]      \* del active_connections[user_id]
       ELSE [E EXCEPT ![i].conns = l]

\* a send loop that forgets the connections it collected
Prune_forgets(E, disconnected, user_id) == E

RECURSIVE Prune(_, _, _)
\* `for conn in disconnected: self.disconnect(conn, user_id)`
Prune(E, disconnected, user_id) ==
  IF disconnected = <<>> THEN E
  ELSE Prune(disconnect(E, Head(disconnected), user_id), Tail(disconnected), user_id)

\* ------------------------------------------------------------ sender tasks
IdleTask ==
  [kind |-> "none", pc |-> "idle", user |-> "none", lst |-> 0, idx |-> 0,
   cur |-> NoConn, disconnected |-> <<>>, di_used |-> 0, di_pos |-> 0, di_len |-> 0,
   bcReg |-> {}, reg0 |-> {}, unreg0 |-> {}, raisedOn |-> {}]

\* first live entry after position p, 0 when the table is exhausted
NextEntry(E, p) ==
  IF \E i \in (p + 1)..Len(E) : E[i].key # Dummy
  THEN CHOOSE i \in (p + 1)..Len(E) :
         E[i].key # Dummy /\ \A j \in (p + 1)..(i - 1) : E[j].key = Dummy
  ELSE 0

\* the call is over ("done": returned, "raised": left by an exception); its frame
\* is dropped, what it was called with and what it was called on is kept
Ended(T, how) ==
  [IdleTask EXCEPT !.kind = T.kind, !.pc = how, !.user = T.user]

RECURSIVE SendLoop(_)
RECURSIVE BroadcastNext(_)

\* send_personal_message returned: a personal send is done, a broadcast
\* asks the dict iterator for its next item
Returned(M) ==
  IF M.T.kind = "broadcast" THEN BroadcastNext(M)
  ELSE [M EXCEPT !.T = Ended(M.T, "done")]

\* the `for connection in self.active_connections[user_id]` loop, run from
\* the list iterator's next() up to the next `await connection.send_text`
SendLoop(M) ==
  LET l == M.E[M.T.lst].conns IN
  IF M.T.idx < Len(l)
  THEN LET c == l[M.T.idx + 1] IN
       IF client_state[c] = "CONNECTED"
       THEN [M EXCEPT !.T.idx = @ + 1, !.T.cur = c, !.T.pc = "sending"]
       ELSE SendLoop([M EXCEPT !.T.idx = @ + 1,
                               !.T.disconnected = Append(@, c)])
  ELSE Returned([M EXCEPT
         !.E = Prune(M.E, M.T.disconnected, M.T.user),
         !.U = M.U \cup Range(M.T.disconnected),
         !.R = M.R \cup (M.U \cap Range(M.T.disconnected)),
         !.T.cur = NoConn])

\* ConnectionManager.send_personal_message, from its call to its first await
send_personal_message(M, user_id) ==
  LET i == Lookup(M.E, user_id) IN
  IF i = 0 THEN Returned([M EXCEPT !.T.user = user_id])
  ELSE SendLoop([M EXCEPT !.T.user = user_id, !.T.lst = i, !.T.idx = 0,
                          !.T.disconnected = <<>>,
                          !.T.reg0 = Range(M.E[i].conns),
                          !.T.unreg0 = M.U,
                          !.T.raisedOn = {}])

\* ConnectionManager.broadcast: next() of the active_connections.items()
\* iterator, then the body of the loop up to its first await
BroadcastNext(M) ==
  IF M.T.di_used # Used(M.E)
  THEN [M EXCEPT !.T = Ended(M.T, "raised")]  \* RuntimeError: dictionary changed size during iteration
  ELSE LET i == NextEntry(M.E, M.T.di_pos) IN
       IF i = 0 THEN [M EXCEPT !.T = Ended(M.T, "done")]
       ELSE IF M.T.di_len = 0
       THEN [M EXCEPT !.T = Ended(M.T, "raised")]  \* RuntimeError: dictionary keys changed during iteration
       ELSE send_personal_message(
              [M EXCEPT !.T.di_pos = i, !.T.di_len = @ - 1], M.E[i].key)

Machine(t) == [E |-> entries, T |-> task[t], U |-> unregd, R |-> redone]

Commit(t, M) ==
  /\ entries' = M.E
  /\ task' = [task EXCEPT ![t] = M.T]
  /\ unregd' = M.U
  /\ redone' = M.R

\* ------------------------------------------------------------------ actions
RegInit ==
  /\ entries = <<>>
  /\ wsUser = [c \in Conns |-> "none"]
  /\ wsPc = [c \in Conns |-> "new"]
  /\ client_state = [c \in Conns |-> "CONNECTING"]
  /\ task = [t \in Tasks |-> IdleTask]
  /\ recv = [c \in Conns |-> <<>>]
  /\ unregd = {}
  /\ redone = {}

\* websocket_endpoint up to its first receive: accept, then register
Connect(c, u) ==
  /\ wsPc[c] = "new"
  /\ \A d \in Conns : d < c => wsPc[d] # "new"
  /\ wsPc' = [wsPc EXCEPT ![c] = "reading"]
  /\ wsUser' = [wsUser EXCEPT ![c] = u]
  /\ client_state' = [client_state EXCEPT ![c] = "CONNECTED"]
  /\ entries' = connect(entries, c, u)
  /\ UNCHANGED <<task, recv, unregd, redone, alertVars, sideVars>>

\* websocket_endpoint: receive_text raised WebSocketDisconnect
RecvDisconnect(c) ==
  /\ wsPc[c] = "reading"
  /\ wsPc' = [wsPc EXCEPT ![c] = "ended"]
  /\ client_state' = [client_state EXCEPT ![c] = "DISCONNECTED"]
  /\ entries' = disconnect(entries, c, wsUser[c])
  /\ unregd' = unregd \cup {c}
  /\ redone' = redone \cup ({c} \cap unregd)
  /\ UNCHANGED <<wsUser, task, recv, alertVars, sideVars>>

\* websocket_endpoint: any other exception in the read loop (malformed
\* JSON, a failed pong / subscription reply)
RecvError(c) ==
  /\ wsPc[c] = "reading"
  /\ wsPc' = [wsPc EXCEPT ![c] = "ended"]
  /\ entries' = disconnect(entries, c, wsUser[c])
  /\ unregd' = unregd \cup {c}
  /\ redone' = redone \cup ({c} \cap unregd)
  /\ UNCHANGED <<wsUser, client_state, task, recv, alertVars, sideVars>>

\* send_notification / send_alert: manager.send_personal_message(message, user_id)
StartSend(t, u) ==
  /\ task[t].pc = "idle"
  /\ \A s \in Tasks : s < t => task[s].pc # "idle"
  /\ Commit(t, send_personal_message(
         [Machine(t) EXCEPT !.T.kind = "send"], u))
  /\ UNCHANGED <<wsUser, wsPc, client_state, recv, alertVars, sideVars>>

\* broadcast_system_message: manager.broadcast(msg)
StartBroadcast(t) ==
  /\ task[t].pc = "idle"
  /\ \A s \in Tasks : s < t => task[s].pc # "idle"
  /\ Commit(t, BroadcastNext(
         [Machine(t) EXCEPT !.T.kind = "broadcast",
                            !.T.di_used = Used(entries),
                            !.T.di_len = Used(entries),
                            !.T.di_pos = 0,
                            !.T.bcReg = Registered(entries)]))
  /\ UNCHANGED <<wsUser, wsPc, client_state, recv, alertVars, sideVars>>

\* `await connection.send_text(...)` returns: the message was handed over
\* (a send on a websocket whose peer has disconnected raises instead)
SendOk(t) ==
  LET c == task[t].cur IN
  /\ task[t].pc = "sending"
  /\ client_state[c] = "CONNECTED"
  /\ recv' = [recv EXCEPT ![c] = Append(@, t)]
  /\ Commit(t, SendLoop(Machine(t)))
  /\ UNCHANGED <<wsUser, wsPc, client_state, alertVars, sideVars>>

\* `await connection.send_text(...)` raises: the connection is collected
\* in `disconnected`
SendFail(t) ==
  LET c == task[t].cur IN
  /\ task[t].pc = "sending"
  /\ Commit(t, SendLoop([Machine(t) EXCEPT !.T.disconnected = Append(@, c),
                                            !.T.raisedOn = @ \cup {c}]))
  /\ UNCHANGED <<wsUser, wsPc, client_state, recv, alertVars, sideVars>>

RegNext ==
  \/ \E c \in Conns, u \in Users : Connect(c, u)
  \/ \E c \in Conns : RecvDisconnect(c)
  \/ \E c \in Conns : RecvError(c)
  \/ \E t \in Tasks, u \in Users : StartSend(t, u)
  \/ \E t \in Tasks : StartBroadcast(t)
  \/ \E t \in Tasks : SendOk(t)
  \/ \E t \in Tasks : SendFail(t)

\* ======================================================== alert service
\* ------------------------------------------------------------------ bounds
MaxCalls == 1           \* create_alert calls in flight at once
MaxAlerts == 3          \* rows the alerts table can hold
SuppressionWindow == 1  \* a suppression window, any positive duration (hours)

ExpiryHours == 24
TickStep == ExpiryHours
MaxTime == ExpiryHours
NoneVal == "None"
NoTime == -1            \* None where a datetime is expected
NoId == 0               \* no alert id
Calls == 1..MaxCalls
AlertSeverity == {"info", "warning", "critical", "emergency"}
Channels == <<"websocket", "email", "sms">>
ChannelSet == Range(Channels)

\* the users table, in the order the query returns its rows
DbUsers == <<"u1", "u2", "u3">>
UserTable ==
  [u \in Range(DbUsers) |->
     [is_active |-> u # "u3", email |-> TRUE, phone_number |-> u # "u2"]]

\* what callers pass to create_alert
CallerArgs ==
  LET good == [title |-> "Heatwave", message |-> "38C in TG",
               severity |-> "warning", user_id |-> NoneVal, expires_at |-> NoTime]
  IN {good,
      [good EXCEPT !.user_id = "u2", !.expires_at = 0],
      [good EXCEPT !.title = ""],
      [good EXCEPT !.message = ""],
      [good EXCEPT !.severity = "~bogus"]}

NoChans == [ch \in ChannelSet |-> "none"]

IdleCall ==
  [pc |-> "idle", origin |-> "none", row |-> NoneVal, expires_arg |-> NoTime,
   id |-> NoId, audience |-> <<>>, upos |-> 0, chan |-> NoChans]

NoneEnded == [how |-> "none", cause |-> "none", id |-> NoId]

\* Alert(...) as create_alert builds it; the column defaults fill the flags
new_alert_at(t, origin, title, message, alert_type, severity, user_id, expires_at) ==
  [id |-> NoId, title |-> title, message |-> message, alert_type |-> alert_type,
   severity |-> severity, user_id |-> user_id,
   is_active |-> TRUE, is_read |-> FALSE,
   sent_email |-> FALSE, sent_sms |-> FALSE, sent_push |-> FALSE,
   created_at |-> NoTime,
   expires_at |-> IF expires_at # NoTime THEN expires_at ELSE t + ExpiryHours,
   origin |-> origin]

new_alert(origin, title, message, alert_type, severity, user_id, expires_at) ==
  new_alert_at(now, origin, title, message, alert_type, severity, user_id, expires_at)

\* await db.commit(): the row is inserted, id and created_at filled in
db_commit_at(t, A, row) == Append(A, [row EXCEPT !.id = Len(A) + 1, !.created_at = t])

db_commit(A, row) == db_commit_at(now, A, row)

\* a query that forgets the expiry condition
ActiveRows_unexpiring(A, t, user_id) ==
  {A[i] : i \in {j \in 1..Len(A) :
     A[j].is_active /\ (user_id # NoneVal => A[j].user_id = user_id)}}

\* the WHERE clause of get_active_alerts
ActiveRows(A, t, user_id) ==
  {A[i] : i \in {j \in 1..Len(A) :
     /\ A[j].is_active
     /\ A[j].expires_at > t
     /\ (user_id # NoneVal => A[j].user_id = user_id)}}

\* _get_users_for_alert: select(User).where(User.is_active == True)
get_users_for_alert == SelectSeq(DbUsers, LAMBDA u : UserTable[u].is_active)

\* _get_user_notification_channels
get_user_notification_channels(u) ==
  [ch \in ChannelSet |->
     IF \/ ch = "websocket"
        \/ (ch = "email" /\ UserTable[u].email)
        \/ (ch = "sms" /\ UserTable[u].phone_number)
     THEN "pending" ELSE "none"]

\* send_notification has no return statement
send_notification_result(chan) == NoneVal

Finished(st) == st \in {"none", "ok", "failed", "skipped"}

\* the lowest free call slot
NextSlot(C) == CHOOSE k \in Calls : C[k].pc = "idle" /\ \A j \in Calls : j < k => C[j].pc # "idle"

Free(C) == Cardinality({k \in Calls : C[k].pc = "idle"})

\* create_alert from its call to `await db.commit()`; a severity that is
\* no enum member has no `.value`: AttributeError, printed and re-raised
StartCall(C, k, origin, title, message, alert_type, severity, user_id, expires_at) ==
  IF severity \in AlertSeverity
  THEN [call |-> [C EXCEPT ![k] = [IdleCall EXCEPT
          !.pc = "commit", !.origin = origin, !.expires_arg = expires_at,
          !.row = new_alert(origin, title, message, alert_type, severity, user_id, expires_at)]],
        ended |-> ended]
  ELSE [call |-> C,
        ended |-> [how |-> "raised", cause |-> "severity", id |-> NoId]]

\* a create_alert call is over; run_alert_checks goes on from
\* check_weather_conditions to check_price_variations in the same task
EndCall(C, k, how, cause) ==
  LET D == [C EXCEPT ![k] = IdleCall]
      e == [how |-> how, cause |-> cause, id |-> C[k].id]
  IN IF C[k].origin = "weather"
     THEN [StartCall(D, k, "price", "Chute des Prix du Cacao", "-18%",
                     "price", "critical", NoneVal, NoTime) EXCEPT !.ended = e]
     ELSE [call |-> D, ended |-> e]

\* _trigger_notifications: `except Exception as e: print(...)`, then
\* create_alert returns alert_id
OnNotifyError(C, k) == EndCall(C, k, "returned", "none")

\* _send_email / _send_sms / _send_websocket: `except Exception as e: print(...)`
OnSenderError(chan, ch) == [chan EXCEPT ![ch] = "failed"]

\* send_notification for the next audience member, up to its `await
\* asyncio.gather(...)`; after the last one create_alert returns alert_id
NextUser(C, k) ==
  IF C[k].upos < Len(C[k].audience)
  THEN [call |-> [C EXCEPT ![k].pc = "gather", ![k].upos = @ + 1,
                    ![k].chan = get_user_notification_channels(C[k].audience[C[k].upos + 1])],
        ended |-> ended]
  ELSE EndCall(C, k, "returned", "none")

\* the event loop is inside a blocking provider call (smtplib, twilio)
LoopBlocked ==
  \E k \in Calls, ch \in {"email", "sms"} : call[k].chan[ch] = "blocked"

CycleActive == \E k \in Calls : call[k].origin \in {"weather", "price"}

AlertInit ==
  /\ now = 0
  /\ alerts = <<>>
  /\ active_alerts = {}
  /\ call = [k \in Calls |-> IdleCall]
  /\ ended = NoneEnded
  /\ smtp_host \in BOOLEAN
  /\ twilio_client \in BOOLEAN

\* the step's effect on the frames and on the last outcome
Becomes(r) == call' = r.call /\ ended' = r.ended

\* a direct create_alert(title, message, alert_type, severity, expires_at=...)
CreateAlert(a) ==
  /\ ~LoopBlocked
  /\ Free(call) > 0
  /\ Becomes(StartCall(call, NextSlot(call), "direct", a.title, a.message,
                       "weather", a.severity, a.user_id, a.expires_at))
  /\ UNCHANGED <<now, alerts, active_alerts, smtp_host, twilio_client, regVars, sideVars>>

\* run_alert_checks: check_weather_conditions finds 38 > 35 and calls create_alert
RunAlertChecks ==
  /\ ~LoopBlocked
  /\ ~CycleActive
  /\ Free(call) > 0
  /\ Becomes(StartCall(call, NextSlot(call), "weather", "Alerte Canicule", "38C",
                       "weather", "warning", NoneVal, NoTime))
  /\ UNCHANGED <<now, alerts, active_alerts, smtp_host, twilio_client, regVars, sideVars>>

\* `await db.commit()` returns
CommitOk(k) ==
  /\ ~LoopBlocked
  /\ call[k].pc = "commit"
  /\ Len(alerts) < MaxAlerts
  /\ alerts' = db_commit(alerts, call[k].row)
  /\ call' = [call EXCEPT ![k].pc = "refresh", ![k].id = Len(alerts) + 1]
  /\ UNCHANGED <<now, active_alerts, ended, smtp_host, twilio_client, regVars, sideVars>>

\* `await db.commit()` raises: printed and re-raised to the caller
CommitFail(k) ==
  /\ ~LoopBlocked
  /\ call[k].pc = "commit"
  /\ Becomes(EndCall(call, k, "raised", "commit"))
  /\ UNCHANGED <<now, alerts, active_alerts, smtp_host, twilio_client, regVars, sideVars>>

\* `await db.refresh(alert)` returns: the payload is cached and
\* _trigger_notifications runs up to `await self._get_users_for_alert`
RefreshOk(k) ==
  /\ ~LoopBlocked
  /\ call[k].pc = "refresh"
  /\ call' = [call EXCEPT ![k].pc = "resolve"]
  /\ active_alerts' = active_alerts \cup
       {[id |-> call[k].id, title |-> call[k].row.title, message |-> call[k].row.message,
         type |-> call[k].row.alert_type, severity |-> call[k].row.severity,
         created_at |-> now, expires_at |-> call[k].expires_arg]}
  /\ UNCHANGED <<now, alerts, ended, smtp_host, twilio_client, regVars, sideVars>>

\* `await db.refresh(alert)` raises: printed and re-raised to the caller
RefreshFail(k) ==
  /\ ~LoopBlocked
  /\ call[k].pc = "refresh"
  /\ Becomes(EndCall(call, k, "raised", "refresh"))
  /\ UNCHANGED <<now, alerts, active_alerts, smtp_host, twilio_client, regVars, sideVars>>

\* `await self._get_users_for_alert(alert_data)` returns the audience
ResolveOk(k) ==
  /\ ~LoopBlocked
  /\ call[k].pc = "resolve"
  /\ Becomes(NextUser([call EXCEPT ![k].audience = get_users_for_alert], k))
  /\ UNCHANGED <<now, alerts, active_alerts, smtp_host, twilio_client, regVars, sideVars>>

\* `await self._get_users_for_alert(alert_data)` raises
ResolveFail(k) ==
  /\ ~LoopBlocked
  /\ call[k].pc = "resolve"
  /\ Becomes(OnNotifyError(call, k))
  /\ UNCHANGED <<now, alerts, active_alerts, smtp_host, twilio_client, regVars, sideVars>>

\* senders that invoke their provider whether it is configured or not
Skips_never(ch, u) == FALSE

\* the guard a sender starts with: _send_email returns at once without an
\* SMTP host or an address, _send_sms without a Twilio client or a number
Skips(ch, u) ==
  CASE ch = "email" -> ~smtp_host \/ ~UserTable[u].email
    [] ch = "sms" -> ~twilio_client \/ ~UserTable[u].phone_number
    [] OTHER -> FALSE

\* the next sender task of the gather starts, in the order the channels
\* were given. _send_websocket finds no connection of the user in the
\* registry and returns; _send_email and _send_sms return at once without
\* a provider or an address, else enter their provider call (smtplib,
\* twilio), which blocks the event loop until it returns
StartSender(k) ==
  /\ ~LoopBlocked
  /\ call[k].pc = "gather"
  /\ \E i \in 1..Len(Channels) :
       LET ch == Channels[i]
           u == call[k].audience[call[k].upos]
           skip == Skips(ch, u)
       IN /\ call[k].chan[ch] = "pending"
          /\ \A j \in 1..(i - 1) : call[k].chan[Channels[j]] # "pending"
          /\ call' = [call EXCEPT ![k].chan[ch] =
                        IF skip THEN "skipped"
                        ELSE IF ch = "websocket" THEN "ok" ELSE "blocked"]
  /\ UNCHANGED <<now, alerts, active_alerts, ended, smtp_host, twilio_client, regVars, sideVars>>

\* a sender's provider call returns: the sender prints its success
SenderOk(k, ch) ==
  /\ call[k].pc = "gather"
  /\ call[k].chan[ch] = "blocked"
  /\ call' = [call EXCEPT ![k].chan[ch] = "ok"]
  /\ UNCHANGED <<now, alerts, active_alerts, ended, smtp_host, twilio_client, regVars, sideVars>>

\* a sender's provider call raises: the sender prints the error
SenderFail(k, ch) ==
  /\ call[k].pc = "gather"
  /\ call[k].chan[ch] = "blocked"
  /\ call' = [call EXCEPT ![k].chan = OnSenderError(@, ch)]
  /\ UNCHANGED <<now, alerts, active_alerts, ended, smtp_host, twilio_client, regVars, sideVars>>

\* every sender of the gather is done: send_notification returns and
\* _trigger_notifications goes on to the next audience member
GatherReturn(k) ==
  /\ ~LoopBlocked
  /\ call[k].pc = "gather"
  /\ \A ch \in ChannelSet : Finished(call[k].chan[ch])
  /\ Becomes(NextUser(call, k))
  /\ UNCHANGED <<now, alerts, active_alerts, smtp_host, twilio_client, regVars, sideVars>>

\* time passes: a step of the clock is far longer than any call takes
Tick ==
  /\ now + TickStep <= MaxTime
  /\ \A k \in Calls : call[k].pc = "idle"
  /\ now' = now + TickStep
  /\ UNCHANGED <<alerts, active_alerts, call, ended, smtp_host, twilio_client, regVars, sideVars>>

AlertNext ==
  \/ \E a \in CallerArgs : CreateAlert(a)
  \/ RunAlertChecks
  \/ \E k \in Calls : CommitOk(k)
  \/ \E k \in Calls : CommitFail(k)
  \/ \E k \in Calls : RefreshOk(k)
  \/ \E k \in Calls : RefreshFail(k)
  \/ \E k \in Calls : ResolveOk(k)
  \/ \E k \in Calls : ResolveFail(k)
  \/ \E k \in Calls : StartSender(k)
  \/ \E k \in Calls, ch \in ChannelSet : SenderOk(k, ch)
  \/ \E k \in Calls, ch \in ChannelSet : SenderFail(k, ch)
  \/ \E k \in Calls : GatherReturn(k)
  \/ Tick

\* ============================================================ the reads
Filters == {NoneVal, "u1", "u2"}
\* the times at which the table's rows were committed and at which it is read
Times == {0, ExpiryHours \div 2, ExpiryHours}

\* the ids mark_alert_as_read is called with; the last one is no row's id
MarkIds == 1..(MaxAlerts + 1)

\* what the create_alert calls that filled the table were called with
ReadArgs ==
  [title : {"Heatwave"}, message : {"38C in TG"}, severity : {"warning"},
   user_id : Filters, expires_at : {NoTime, 0}]

\* the table after one more create_alert(a) has committed at time t
Insert(t, A, a) ==
  db_commit_at(t, A, new_alert_at(t, "direct", a.title, a.message, "weather",
                                  a.severity, a.user_id, a.expires_at))

LastCreated(A) == IF A = <<>> THEN 0 ELSE A[Len(A)].created_at

RECURSIVE TablesUpTo(_)
\* the tables that up to n committed create_alert calls leave
TablesUpTo(n) ==
  IF n = 0 THEN {<<>>}
  ELSE LET P == TablesUpTo(n - 1) IN
       P \cup UNION {{Insert(t, A, a) : t \in {x \in Times : x >= LastCreated(A)},
                                        a \in ReadArgs} :
                     A \in {B \in P : Len(B) = n - 1}}

IsDesc(L) == \A i, j \in DOMAIN L : i < j => L[i].created_at >= L[j].created_at

\* query.order_by(Alert.created_at.desc()): rows of equal created_at come
\* in whatever order the database picks
order_by_created_at_desc(S) ==
  {L \in [1..Cardinality(S) -> S] :
     (\A i, j \in DOMAIN L : i # j => L[i] # L[j]) /\ IsDesc(L)}

\* the dict get_active_alerts builds for a row
alert_dict(r) ==
  [id |-> r.id, title |-> r.title, message |-> r.message, type |-> r.alert_type,
   severity |-> r.severity, created_at |-> r.created_at, expires_at |-> r.expires_at]

NoListing == [ok |-> FALSE, user_id |-> NoneVal, at |-> NoTime, rows |-> <<>>]
NoMark == [alert_id |-> NoId]

\* a mark_alert_as_read that treats reading an alert as dismissing it
mark_alert_as_read_dismisses(A, alert_id) ==
  [i \in DOMAIN A |->
     IF A[i].id = alert_id THEN [A[i] EXCEPT !.is_read = TRUE, !.is_active = FALSE]
     ELSE A[i]]

\* mark_alert_as_read: `select` is not bound in this scope (the other
\* methods import it locally), so building the query raises NameError,
\* which `except Exception` prints; no row is read or written
mark_alert_as_read(A, alert_id) == A

ReadIdle == listing = NoListing /\ mark_call = NoMark

\* get_active_alerts(user_id): the query returns
GetActiveAlerts(user_id) ==
  /\ \E L \in order_by_created_at_desc(ActiveRows(alerts, now, user_id)) :
       listing' = [ok |-> TRUE, user_id |-> user_id, at |-> now,
                   rows |-> [i \in DOMAIN L |-> alert_dict(L[i])]]
  /\ UNCHANGED <<mark_call, alertVars, regVars, evalVars, lifeVars, rateVars>>

\* get_active_alerts(user_id): the query raises; `except Exception`
\* prints the error and returns []
GetActiveAlertsFail(user_id) ==
  /\ listing' = [ok |-> FALSE, user_id |-> user_id, at |-> now, rows |-> <<>>]
  /\ UNCHANGED <<mark_call, alertVars, regVars, evalVars, lifeVars, rateVars>>

\* mark_alert_as_read(alert_id, user_id) from its call to its return
MarkAlertAsRead(alert_id) ==
  /\ alerts' = mark_alert_as_read(alerts, alert_id)
  /\ mark_call' = [alert_id |-> alert_id]
  /\ UNCHANGED <<now, active_alerts, call, ended, smtp_host, twilio_client, listing, regVars, evalVars, lifeVars, rateVars>>

ReadNext ==
  \/ \E f \in Filters : GetActiveAlerts(f)
  \/ \E f \in Filters : GetActiveAlertsFail(f)
  \/ \E i \in MarkIds : MarkAlertAsRead(i)
  \/ Tick

\* ===================================================== alert conditions
\* the operator strings a condition is built with: the six of the table,
\* one outside it and the empty string
Operators == {">", "<", ">=", "<=", "==", "!=", "~=", ""}
\* thresholds and observed values
Values == 34..38

\* AlertCondition.__init__
AlertCondition(metric, operator, value, duration_minutes) ==
  [metric |-> metric, operator |-> operator, value |-> value,
   duration_minutes |-> duration_minutes]

Conditions == {AlertCondition("temperature", op, v, 0) : op \in Operators, v \in Values}

\* the table `operators` of evaluate
operators ==
  [gt |-> [a \in Values, b \in Values |-> a > b],
   lt |-> [a \in Values, b \in Values |-> a < b],
   ge |-> [a \in Values, b \in Values |-> a >= b],
   le |-> [a \in Values, b \in Values |-> a <= b],
   eq |-> [a \in Values, b \in Values |-> a = b],
   ne |-> [a \in Values, b \in Values |-> a # b]]

\* the keys of the table
OperatorKey ==
  [x \in {">", "<", ">=", "<=", "==", "!="} |->
     CASE x = ">" -> "gt" [] x = "<" -> "lt" [] x = ">=" -> "ge"
       [] x = "<=" -> "le" [] x = "==" -> "eq" [] x = "!=" -> "ne"]

\* op_func = operators.get(self.operator): the table's function for the
\* operator, applied to (a, b); only called when the table has one
op_func(operator, a, b) == operators[OperatorKey[operator]][a, b]

\* an evaluation that hands the table's function its arguments the wrong way round
evaluate_swapped(self, current_value) ==
  IF self.operator \notin DOMAIN OperatorKey THEN FALSE
  ELSE op_func(self.operator, self.value, current_value)

\* AlertCondition.evaluate(current_value): false when the table has no
\* function for the operator
evaluate(self, current_value) ==
  IF self.operator \notin DOMAIN OperatorKey THEN FALSE
  ELSE op_func(self.operator, current_value, self.value)

NoVerdict == [called |-> FALSE, current_value |-> 0, result |-> FALSE]

\* no condition has been evaluated
EvalIdle ==
  /\ condition = AlertCondition("temperature", ">", 35, 0)
  /\ verdict = NoVerdict

\* condition.evaluate(current_value) from its call to its return
Evaluate(current_value) ==
  /\ verdict' = [called |-> TRUE, current_value |-> current_value,
                 result |-> evaluate(condition, current_value)]
  /\ UNCHANGED <<condition, regVars, alertVars, readVars, lifeVars, rateVars>>

EvalNext == \E v \in Values : Evaluate(v)

\* ============================================================= lifespan
\* the application has started: lifespan is at its `yield`
LifeIdle == app_state = "running"

\* shutdown begins: lifespan resumes after its `yield` and awaits
\* close_db_connections(); it waits for nothing else
ShutdownBegins ==
  /\ app_state = "running"
  /\ app_state' = "closing"
  /\ UNCHANGED <<regVars, alertVars, readVars, evalVars, rateVars>>

\* close_db_connections has disposed of the engine and closed the other
\* clients: lifespan returns and the process exits, whatever is in flight
ShutdownCompletes ==
  /\ app_state = "closing"
  /\ app_state' = "closed"
  /\ UNCHANGED <<regVars, alertVars, readVars, evalVars, rateVars>>

\* the periodic checks and their dispatches, with the shutdown of the process
LifeNext ==
  \/ RunAlertChecks
  \/ \E k \in Calls : CommitOk(k)
  \/ \E k \in Calls : CommitFail(k)
  \/ \E k \in Calls : RefreshOk(k)
  \/ \E k \in Calls : RefreshFail(k)
  \/ \E k \in Calls : ResolveOk(k)
  \/ \E k \in Calls : ResolveFail(k)
  \/ \E k \in Calls : StartSender(k)
  \/ \E k \in Calls, ch \in ChannelSet : SenderOk(k, ch)
  \/ \E k \in Calls, ch \in ChannelSet : SenderFail(k, ch)
  \/ \E k \in Calls : GatherReturn(k)
  \/ ShutdownBegins
  \/ ShutdownCompletes

\* ========================================================= rate limiting
\* RateLimitMiddleware(app, requests_per_minute)
RequestsPerMinute == 2
\* the age in seconds from which a recorded request no longer counts
Window == 60
\* the clock's step and its last value
WallStep == Window \div 3
MaxWall == 2 * Window

\* client IPs, by their octets: a public address and a private one
Ips == {<<203, 0, 113, 7>>, <<10, 0, 0, 5>>}
\* request paths, by their segments
Paths == {<<"api", "v1", "alerts">>, <<"health", "ready">>}

\* client_ip in ["127.0.0.1", "::1", "localhost"] or one of the private prefixes
InternalIp(client_ip) ==
  \/ client_ip = <<127, 0, 0, 1>>
  \/ client_ip[1] = 10
  \/ (client_ip[1] = 192 /\ client_ip[2] = 168)
  \/ (client_ip[1] = 172 /\ 16 <= client_ip[2] /\ client_ip[2] <= 31)

\* the test that skips rate limiting
Skipped(client_ip, path) ==
  \/ (path # <<>> /\ path[1] = "health")
  \/ InternalIp(client_ip)

\* a clean-up that keeps every recorded request
remove_old_keeps(times, current_time) == times

\* `[req_time for req_time in self.clients[client_ip] if current_time - req_time < 60]`
remove_old(times, current_time) ==
  SelectSeq(times, LAMBDA req_time : current_time - req_time < Window)

\* self.clients[client_ip], [] when the key is new
Recorded(client_ip) ==
  IF client_ip \in DOMAIN clients THEN clients[client_ip] ELSE <<>>

NoRequest == [client_ip |-> <<>>, path |-> <<>>, at |-> 0, outcome |-> "none"]

RateIdle ==
  /\ wall = 0
  /\ clients = <<>>
  /\ served = [ip \in Ips |-> <<>>]
  /\ last = NoRequest

\* RateLimitMiddleware.dispatch from its call to `await call_next(request)`
\* or to its `raise HTTPException(429)`; after call_next returns it only
\* sets headers on the response
Dispatch(client_ip, path) ==
  /\ Len(served[client_ip]) <= RequestsPerMinute
  /\ IF Skipped(client_ip, path)
     THEN /\ clients' = clients
          /\ served' = [served EXCEPT ![client_ip] = Append(@, [at |-> wall, limited |-> FALSE])]
          /\ last' = [client_ip |-> client_ip, path |-> path, at |-> wall, outcome |-> "passed"]
     ELSE LET current_time == wall
              kept == remove_old(Recorded(client_ip), current_time)
              put(l) == [ip \in DOMAIN clients \cup {client_ip} |->
                           IF ip = client_ip THEN l ELSE clients[ip]]
          IN IF Len(kept) >= RequestsPerMinute
             THEN /\ clients' = put(kept)
                  /\ served' = served
                  /\ last' = [client_ip |-> client_ip, path |-> path, at |-> wall, outcome |-> "429"]
             ELSE /\ clients' = put(Append(kept, current_time))
                  /\ served' = [served EXCEPT ![client_ip] = Append(@, [at |-> wall, limited |-> TRUE])]
                  /\ last' = [client_ip |-> client_ip, path |-> path, at |-> wall, outcome |-> "passed"]
  /\ UNCHANGED <<wall, regVars, alertVars, readVars, evalVars, lifeVars>>

\* time passes; the history drops the requests that no window of a minute
\* can hold together with a request still to come
WallTick ==
  /\ wall + WallStep <= MaxWall
  /\ wall' = wall + WallStep
  /\ served' = [ip \in Ips |->
                  SelectSeq(served[ip], LAMBDA e : wall' - e.at < Window)]
  /\ UNCHANGED <<clients, last, regVars, alertVars, readVars, evalVars, lifeVars>>

RateNext ==
  \/ \E client_ip \in Ips, path \in Paths : Dispatch(client_ip, path)
  \/ WallTick

\* ------------------------------------------------------- specifications
\* the connection registry under its tasks; no provider is configured
Init == RegInit /\ AlertInit /\ ReadIdle /\ EvalIdle /\ LifeIdle /\ RateIdle /\ ~smtp_host /\ ~twilio_client

Spec == Init /\ [][RegNext]_vars

\* the alert service under its callers, for every provider configuration
ServiceInit == RegInit /\ AlertInit /\ ReadIdle /\ EvalIdle /\ LifeIdle /\ RateIdle

AlertSpec == ServiceInit /\ [][AlertNext]_vars

\* the reads of the alerts table, over every table the service can have left
ReadInit ==
  /\ RegInit
  /\ now \in Times
  /\ alerts \in {A \in TablesUpTo(MaxAlerts) : LastCreated(A) <= now}
  /\ active_alerts = {}
  /\ call = [k \in Calls |-> IdleCall]
  /\ ended = NoneEnded
  /\ smtp_host = FALSE
  /\ twilio_client = FALSE
  /\ ReadIdle
  /\ EvalIdle
  /\ LifeIdle
  /\ RateIdle

ReadSpec == ReadInit /\ [][ReadNext]_vars

\* one condition, of any operator and threshold, under its evaluations
EvalInit ==
  /\ RegInit
  /\ AlertInit
  /\ ~smtp_host
  /\ ~twilio_client
  /\ ReadIdle
  /\ condition \in Conditions
  /\ verdict = NoVerdict
  /\ LifeIdle
  /\ RateIdle

EvalSpec == EvalInit /\ [][EvalNext]_vars

\* the alert service's periodic checks while the process is shut down
LifeSpec == ServiceInit /\ [][LifeNext]_vars

\* the rate limiter under its clients' requests; no provider is configured
RateSpec == Init /\ [][RateNext]_vars

\* ---------------------------------------------------- registry: the claims
\* task t's send_text on websocket c returns in this step
Hands(t, c) == task[t].pc = "sending" /\ task[t].cur = c /\ recv'[c] = Append(recv[c], t)

\* task t's send_text on websocket c raises in this step
Raises(t, c) == task[t].pc = "sending" /\ task[t].cur = c /\ recv' = recv

\* task t's call ends in this step
Ends(t) == task[t].pc \in {"idle", "sending"} /\ task'[t].pc \in {"done", "raised"}

\* C1: a send_personal_message call that starts after disconnect(c, u) has
\* returned never hands its message to c.
C1_NoDeliveryAfterDisconnect ==
  [][\A t \in Tasks, c \in Conns : Hands(t, c) => c \notin task[t].unreg0]_regVars

\* a call for user u that started after disconnect(c, u) returned is handing
\* its message to another websocket of u
C1_Witness ==
  \E t \in Tasks, c \in Conns :
    /\ task[t].pc = "sending"
    /\ c \in task[t].unreg0
    /\ wsUser[c] = task[t].user
    /\ task[t].cur # c
    /\ wsUser[task[t].cur] = task[t].user

\* C2: when broadcast(m) is over, every websocket registered when it was
\* called (and still registered) holds exactly one copy of m, and no
\* websocket holds more than one.
C2_BroadcastExactlyOnce ==
  [][\A t \in Tasks :
       (Ends(t) /\ task'[t].kind = "broadcast") =>
         /\ \A c \in (IF task[t].pc = "idle" THEN Registered(entries) ELSE task[t].bcReg) :
              c \in Registered(entries') => Count(recv'[c], t) = 1
         /\ \A c \in Conns : Count(recv'[c], t) <= 1]_regVars

\* C3: when send_personal_message(u, m) returns, every websocket whose send
\* raised is out of the registry, and every websocket of u that was in u's
\* list at the call and is still registered has been handed m.
C3_FailureDoesNotStopOthers ==
  [][\A t \in Tasks :
       (Ends(t) /\ task'[t].kind = "send" /\ task[t].pc = "sending") =>
         /\ \A c \in Conns :
              (c \in task[t].raisedOn \/ Raises(t, c)) => c \notin Registered(entries')
         /\ \A c \in task[t].reg0 :
              c \in Registered(entries') => t \in Range(recv'[c])]_regVars

\* C4: a broadcast never ends with an error, whatever is pruned under it.
C4_BroadcastCompletes == \A t \in Tasks : task[t].pc # "raised"

\* ----------------------------------------------- alert service: the claims
\* the create_alert call of frame k has not yet returned to its caller
Pending(k) == call[k].pc # "idle"

\* the channels send_notification was asked to use for frame k's current user
Requested(k) == {ch \in ChannelSet : call[k].chan[ch] # "none"}

\* the step in which frame k's send_notification returns
GatherReturns(k) ==
  /\ call[k].pc = "gather"
  /\ \A ch \in ChannelSet : Finished(call[k].chan[ch])
  /\ call'[k].upos # call[k].upos

\* C5: a send_notification call in which a channel's sender failed returns
\* with every other requested channel's sender run to its own outcome, and
\* yields a map from each requested channel to its outcome: Failure for the
\* failed channel, Success for the others.
C5_OutcomeMap ==
  [][\A k \in Calls :
       GatherReturns(k) /\ (\E ch \in ChannelSet : call[k].chan[ch] = "failed") =>
         /\ \A ch \in Requested(k) : call[k].chan[ch] \in {"ok", "failed", "skipped"}
         /\ LET r == send_notification_result(call[k].chan) IN
            /\ r # NoneVal
            /\ \A ch \in Requested(k) :
                 r[ch] = IF call[k].chan[ch] = "failed" THEN "Failure" ELSE "Success"]_vars

\* C6: no two alerts raised by the periodic weather check (one condition
\* key) have creation times closer than the suppression window.
C6_Suppression ==
  \A i, j \in 1..Len(alerts) :
    i < j /\ alerts[i].origin = "weather" /\ alerts[j].origin = "weather" =>
      alerts[j].created_at - alerts[i].created_at >= SuppressionWindow

\* C7: create_alert has returned the id once persistence succeeded: no call
\* is still pending while a channel sender of its notification is blocked.
C7_ReturnsBeforeDelivery ==
  \A k \in Calls, ch \in ChannelSet : call[k].chan[ch] = "blocked" => ~Pending(k)

\* C8: a row that get_active_alerts returns was created by a call that has
\* returned successfully: its call is neither still pending nor has it raised.
C8_HiddenUntilReturned ==
  \A r \in ActiveRows(alerts, now, NoneVal) :
    /\ \A k \in Calls : Pending(k) => call[k].id # r.id
    /\ ~(ended.how = "raised" /\ ended.id = r.id)

\* C9: create_alert raises only when validation or persistence fails, and a
\* call whose record is persisted returns its id.
C9_RaisesIffNotPersisted ==
  /\ ended.how = "raised" => ended.cause \in {"severity", "commit", "refresh"}
  /\ (\E i \in 1..Len(alerts) : alerts[i].id = ended.id) => ended.how = "returned"

\* C10: no alert with an empty title, an empty message or a severity outside
\* the enum is persisted or cached.
C10_InvalidNeverPersisted ==
  /\ \A i \in 1..Len(alerts) :
       alerts[i].title # "" /\ alerts[i].message # "" /\ alerts[i].severity \in AlertSeverity
  /\ \A p \in active_alerts : p.title # "" /\ p.message # ""

\* a sender of frame k's current audience member has been run
Notified(k) ==
  /\ call[k].pc = "gather"
  /\ \E ch \in ChannelSet : call[k].chan[ch] \in {"blocked", "ok", "failed"}

\* C11: every user a sender is run for is active and, when the alert was
\* created with a user scope, is the user of that scope.
C11_AudienceWithinScope ==
  \A k \in Calls :
    Notified(k) =>
      LET u == call[k].audience[call[k].upos] IN
      /\ UserTable[u].is_active
      /\ call[k].row.user_id # NoneVal => u = call[k].row.user_id

\* ------------------------------------------------------ the reads: claims
\* the positions of the rows a listing for filter f at time t is to hold
Eligible(A, t, f) ==
  {i \in 1..Len(A) :
     A[i].is_active /\ A[i].expires_at > t /\ (f # NoneVal => A[i].user_id = f)}

\* the last listing holds exactly the eligible rows, newest first
ListsEligible ==
  LET want == Eligible(alerts, listing.at, listing.user_id)
      rows == listing.rows
  IN /\ {rows[i].id : i \in DOMAIN rows} = {alerts[i].id : i \in want}
     /\ Len(rows) = Cardinality(want)
     /\ \A i \in DOMAIN rows : rows[i] = alert_dict(alerts[rows[i].id])
     /\ \A i, j \in DOMAIN rows : i < j => rows[i].created_at >= rows[j].created_at

C13_MarkedIsRead ==
  \A i \in DOMAIN alerts :
    alerts[i].id = mark_call.alert_id => alerts[i].is_read

\* C14: when create_alert was called without expires_at, the record it
\* persisted expires 24 hours after its created_at, and the payload its
\* senders are handed carries that same expires_at
C14_DefaultExpiryEverywhere ==
  \A k \in Calls :
    (call[k].pc = "gather" /\ call[k].expires_arg = NoTime) =>
      LET r == alerts[call[k].id] IN
      /\ r.expires_at = r.created_at + ExpiryHours
      /\ \A p \in active_alerts : p.id = call[k].id => p.expires_at = r.expires_at

\* C15: every persisted alert expires strictly later than it was created
C15_ExpiresAfterCreated ==
  \A i \in DOMAIN alerts : alerts[i].expires_at > alerts[i].created_at

\* ------------------------------------------------ conditions: the claims
\* C16: evaluate returns (observed OP threshold) for the six operators of
\* the table and false for any other operator: '>' with threshold 35 gives
\* true for 38 and false for 35, '~=' gives false; and the call changes
\* neither the condition nor anything else
C16_EvaluateTable ==
  [][verdict' # verdict =>
       LET op == condition.operator
           threshold == condition.value
           observed == verdict'.current_value
           result == verdict'.result
       IN
       /\ op = ">" => (result <=> observed > threshold)
       /\ op = "<" => (result <=> observed < threshold)
       /\ op = ">=" => (result <=> observed >= threshold)
       /\ op = "<=" => (result <=> observed <= threshold)
       /\ op = "==" => (result <=> observed = threshold)
       /\ op = "!=" => (result <=> observed # threshold)
       /\ op \notin {">", "<", ">=", "<=", "==", "!="} => ~result
       /\ (op = ">" /\ threshold = 35 /\ observed = 38) => result
       /\ (op = ">" /\ threshold = 35 /\ observed = 35) => ~result
       /\ op = "~=" => ~result
       /\ UNCHANGED <<condition, regVars, alertVars, readVars>>]_vars

C16_Witness ==
  /\ verdict.called
  /\ condition.operator = ">"
  /\ condition.value = 35
  /\ verdict.current_value = 38
  /\ verdict.result

\* active_connections.get(user_id, []), as a list
ConnsOf(E, user_id) ==
  IF Lookup(E, user_id) = 0 THEN <<>> ELSE E[Lookup(E, user_id)].conns

\* C17: a connect(ws, u) that returns appends ws to u's connections, keeps
\* every connection u already had, in place, and leaves every other user's
\* connections as they were
C17_ConnectAccumulates ==
  [][\A c \in Conns, u \in Users :
       (wsPc[c] = "new" /\ wsPc'[c] = "reading" /\ wsUser'[c] = u) =>
         /\ ConnsOf(entries', u) = Append(ConnsOf(entries, u), c)
         /\ \A v \in Users \ {u} : ConnsOf(entries', v) = ConnsOf(entries, v)]_vars

\* a user whose second connection has joined the first
C17_Witness ==
  \E u \in Users : \E c, d \in Conns :
    /\ c # d
    /\ wsUser[c] = u /\ wsUser[d] = u
    /\ ConnsOf(entries, u) = <<c, d>>

\* C18: disconnect(ws, u) takes ws out of u's connections and nothing else;
\* called again, called for a websocket that is not registered, or called
\* for a user with no entry, it leaves the registry as it is; so does the
\* endpoint's own disconnect of a websocket that a sender has pruned before
C18_DisconnectIdempotent ==
  [][/\ \A c \in Conns, u \in Users :
          LET E1 == disconnect(entries, c, u) IN
          /\ \A v \in Users :
               ListOf(E1, v) = ListOf(entries, v) \ (IF v = u THEN {c} ELSE {})
          /\ c \notin ListOf(entries, u) => E1 = entries
          /\ disconnect(E1, c, u) = E1
     /\ \A c \in Conns :
          (wsPc[c] = "reading" /\ wsPc'[c] = "ended" /\ c \in unregd) =>
            entries' = entries]_vars

\* disconnect has returned twice for a websocket whose user still has another
C18_Witness ==
  \E c \in Conns :
    /\ c \in redone
    /\ wsPc[c] = "ended"
    /\ ListOf(entries, wsUser[c]) # {}

\* what send_personal_message returns to its caller: the function has no
\* return statement
send_personal_message_result(T) == NoneVal

\* C19: a send_personal_message call that returns, returns the number of
\* websockets it handed its message to; for a user without connections it
\* returns zero and leaves the registry as it is
C19_ReturnsDeliveredCount ==
  [][\A t \in Tasks :
       (Ends(t) /\ task'[t].kind = "send" /\ task'[t].pc = "done") =>
         LET r == send_personal_message_result(task'[t]) IN
         /\ r # NoneVal
         /\ r = Cardinality({c \in Conns : t \in Range(recv'[c])})
         /\ Lookup(entries, task'[t].user) = 0 => (r = 0 /\ entries' = entries)]_vars

\* C20: every websocket is handed the messages of the calls in the order in
\* which the calls were made (call 1 is always made before call 2)
C20_PerConnectionFifo ==
  \A c \in Conns : \A i, j \in DOMAIN recv[c] :
    i < j => recv[c][i] <= recv[c][j]

\* C21: within one send_notification call, while one channel's sender is
\* inside its provider call no other requested channel's sender is still
\* waiting to start
C21_SendersRunConcurrently ==
  \A k \in Calls : \A ch, other \in ChannelSet :
    (call[k].pc = "gather" /\ call[k].chan[ch] = "blocked") =>
      call[k].chan[other] # "pending"

\* the sender of channel ch in call k starts in this step
SenderStarts(k, ch) == call[k].pc = "gather" /\ call[k].chan[ch] = "pending" /\ call'[k].chan[ch] # "pending"

\* channel ch has a provider configured
Configured(ch) ==
  CASE ch = "email" -> smtp_host
    [] ch = "sms" -> twilio_client
    [] OTHER -> TRUE

\* C22: the sender of a channel whose provider is not configured returns
\* at once: the provider is not invoked and no failure is recorded; the
\* other channels' senders are not affected, and send_notification returns
\* only when every requested channel has been handled
C22_UnconfiguredSkipped ==
  [][\A k \in Calls :
       /\ \A ch \in ChannelSet :
            (SenderStarts(k, ch) /\ ~Configured(ch)) =>
              /\ call'[k].chan[ch] = "skipped"
              /\ \A other \in ChannelSet \ {ch} : call'[k].chan[other] = call[k].chan[other]
       /\ \A ch \in ChannelSet :
            (call[k].pc = "gather" /\ ~Configured(ch)) =>
              call'[k].chan[ch] \notin {"blocked", "ok", "failed"}
       /\ (call[k].pc = "gather" /\ (call'[k].pc # "gather" \/ call'[k].upos # call[k].upos)) =>
            \A ch \in ChannelSet : call[k].chan[ch] \in {"none", "ok", "failed", "skipped"}]_vars

\* SMS was skipped for want of a Twilio client while the email of the same
\* call went out through the configured SMTP host
C22_Witness ==
  \E k \in Calls :
    /\ call[k].pc = "gather"
    /\ ~twilio_client /\ smtp_host
    /\ call[k].chan["sms"] = "skipped"
    /\ call[k].chan["email"] = "ok"
    /\ call[k].chan["websocket"] = "ok"

\* C23: the channels send_notification is called with for a user are email
\* exactly when the user has an email, SMS exactly when the user has a
\* phone number, and websocket exactly when the user has a connection in
\* the registry
C23_ChannelsFromContacts ==
  \A k \in Calls :
    call[k].pc = "gather" =>
      LET u == call[k].audience[call[k].upos] IN
      /\ call[k].chan["email"] # "none" <=> UserTable[u].email
      /\ call[k].chan["sms"] # "none" <=> UserTable[u].phone_number
      /\ call[k].chan["websocket"] # "none" <=> ListOf(entries, u) # {}

\* C24: a step of mark_alert_as_read changes no field of any record other
\* than is_read and adds or removes no record; a step that lets time pass,
\* and with it records expire, or that changes a record's is_active,
\* leaves every is_read as it was
C24_ReadAndActiveOrthogonal ==
  [][/\ DOMAIN alerts' = DOMAIN alerts
     /\ mark_call' # mark_call =>
          \A i \in DOMAIN alerts :
            [alerts'[i] EXCEPT !.is_read = alerts[i].is_read] = alerts[i]
     /\ now' # now =>
          \A i \in DOMAIN alerts : alerts'[i].is_read = alerts[i].is_read
     /\ \A i \in DOMAIN alerts :
          alerts'[i].is_active # alerts[i].is_active =>
            alerts'[i].is_read = alerts[i].is_read]_vars

\* mark_alert_as_read has returned for a record that is active and has
\* since expired
C24_Witness ==
  \E i \in DOMAIN alerts :
    /\ alerts[i].id = mark_call.alert_id
    /\ alerts[i].is_active
    /\ alerts[i].expires_at <= now
    /\ alerts[i].created_at < now

\* C25: when send_notification returns for an audience member, the alert's
\* record carries the flag of every channel whose sender delivered, and,
\* for the first member, no flag of a channel that was not attempted or
\* whose sender failed
C25_FlagsReflectOutcomes ==
  [][\A k \in Calls :
       GatherReturns(k) =>
         LET r == alerts'[call[k].id]
             sent == [email |-> r.sent_email, sms |-> r.sent_sms, websocket |-> r.sent_push]
         IN \A ch \in ChannelSet :
              /\ call[k].chan[ch] = "ok" => sent[ch]
              /\ (call[k].upos = 1 /\ call[k].chan[ch] # "ok") => ~sent[ch]]_vars

\* ------------------------------------------------- lifespan: the claims
\* C26: shutdown does not complete while a create_alert call, and with it
\* a dispatch, is in flight
C26_ShutdownDrains ==
  [][(app_state = "closing" /\ app_state' = "closed") =>
       \A k \in Calls : ~Pending(k)]_vars

\* ------------------------------------------- registry: the connection's life
\* C27: a websocket comes into the registry only in the step in which its
\* endpoint's connect returns; it is out of the registry once its read loop
\* has ended, and once the send_personal_message call in which a send to it
\* raised is over; and a websocket for which disconnect has returned is
\* never in the registry again
C27_ConnectionLifecycle ==
  [][/\ \A c \in Registered(entries') \ Registered(entries) :
          wsPc[c] = "new" /\ wsPc'[c] = "reading"
     /\ \A c \in Conns :
          /\ wsPc'[c] = "ended" => c \notin Registered(entries')
          /\ c \in unregd => c \notin Registered(entries')
     /\ \A t \in Tasks, c \in Conns :
          (/\ c \in task[t].raisedOn \/ (Raises(t, c) /\ task'[t] # task[t])
           /\ c \notin task'[t].raisedOn) =>
            c \notin Registered(entries')]_vars

\* a websocket that a failed send has taken out of the registry while its
\* endpoint is still reading
C27_Witness ==
  \E c \in Conns :
    /\ wsPc[c] = "reading"
    /\ c \in unregd
    /\ c \notin Registered(entries)

\* C28: when send_personal_message(u, m) returns, every websocket that was
\* in u's list at the call, is still registered and is still open has been
\* handed m exactly once, whatever was unregistered while the call was
\* suspended; and no websocket has been handed m twice
C28_MutationSkipsNone ==
  [][\A t \in Tasks :
       (Ends(t) /\ task'[t].kind = "send" /\ task'[t].pc = "done") =>
         /\ \A c \in task[t].reg0 :
              (/\ c \in Registered(entries')
               /\ c \notin unregd'
               /\ client_state'[c] = "CONNECTED") => Count(recv'[c], t) = 1
         /\ \A c \in Conns : Count(recv'[c], t) <= 1]_vars

\* C29: every key of active_connections maps to a non-empty list
C29_NoEmptyEntry ==
  \A i \in 1..Len(entries) : entries[i].key # Dummy => entries[i].conns # <<>>

\* a user's entry has been deleted with its last connection and another
\* user's entry is in place
C29_Witness ==
  /\ \E i \in 1..Len(entries) : entries[i].key = Dummy
  /\ \E i \in 1..Len(entries) : entries[i].key # Dummy /\ Len(entries[i].conns) = 1
  /\ unregd # {}

\* ------------------------------------------------ rate limiting: the claims
\* the starts of the windows of a minute that the clock can tell apart
WindowStarts == {t \in 0..MaxWall : t % WallStep = 0}

\* the requests of client_ip handed to the application in [a, a + Window)
PassedIn(S, client_ip, a) ==
  {i \in DOMAIN S[client_ip] : a <= S[client_ip][i].at /\ S[client_ip][i].at < a + Window}

\* those of them that were subject to the limit
LimitedIn(S, client_ip, a) ==
  {i \in PassedIn(S, client_ip, a) : S[client_ip][i].limited}

\* the recorded requests of client_ip that are younger than a minute at time t
Young(client_ip, t) ==
  {i \in DOMAIN Recorded(client_ip) : t - Recorded(client_ip)[i] < Window}

\* a request is dispatched in this step
Dispatches == wall' = wall /\ (last' # last \/ clients' # clients \/ served' # served)

\* what the middleware does with a request it does not skip: it rejects
\* the request with 429, and records nothing, exactly when the client has
\* RequestsPerMinute recorded requests younger than a minute; else it
\* records the request and hands it on
LimitsRequest ==
  LET r == last'
      young == Cardinality(Young(r.client_ip, r.at))
      kept == remove_old(Recorded(r.client_ip), r.at)
  IN (Dispatches /\ ~Skipped(r.client_ip, r.path)) =>
       /\ r.outcome = "429" <=> young >= RequestsPerMinute
       /\ r.outcome = "429" => (served' = served /\ clients'[r.client_ip] = kept)
       /\ r.outcome # "429" =>
            /\ r.outcome = "passed"
            /\ clients'[r.client_ip] = Append(kept, r.at)
            /\ Len(served'[r.client_ip]) = Len(served[r.client_ip]) + 1

\* C30 as stated: no client with a public IP has more than
\* RequestsPerMinute requests handed to the application in any window of a
\* minute, and the middleware rejects and records as described
C30_LimitPerClientIp ==
  [][/\ \A client_ip \in Ips, a \in WindowStarts :
          ~InternalIp(client_ip) =>
            Cardinality(PassedIn(served', client_ip, a)) <= RequestsPerMinute
     /\ LimitsRequest]_vars

\* C30, amended: the limit holds of the requests whose path does not start
\* with /health; a request to a /health path, like one from an internal
\* IP, is handed on without being counted or recorded
C30_LimitPerClientOffHealth ==
  [][/\ \A client_ip \in Ips, a \in WindowStarts :
          Cardinality(LimitedIn(served', client_ip, a)) <= RequestsPerMinute
     /\ LimitsRequest
     /\ LET r == last' IN
        (Dispatches /\ Skipped(r.client_ip, r.path)) =>
          (r.outcome = "passed" /\ clients' = clients)]_vars

\* a public client's request is rejected while the oldest of its
\* RequestsPerMinute recorded requests is as old as a request that still
\* counts can be
C30_Witness ==
  /\ last.outcome = "429"
  /\ ~Skipped(last.client_ip, last.path)
  /\ Len(clients[last.client_ip]) = RequestsPerMinute
  /\ last.at - clients[last.client_ip][1] = Window - WallStep
====
